---- MODULE Spec2Model ----
(***************************************************************************)
(* env-populate: the placeholder resolution and merge engine.              *)
(*                                                                         *)
(* A string of the program is a sequence of one-character strings, so that *)
(* trimming, splitting, regular-expression matching and concatenation are  *)
(* computed as the code computes them.  A JavaScript Map and a plain       *)
(* object used as a table are sequences of <<key, value>> pairs in         *)
(* insertion order with unique keys.                                       *)
(***************************************************************************)
EXTENDS Integers, Sequences, FiniteSets, TLC

VARIABLES
    called,   \* name of the pure function applied, or "none"
    args,     \* the arguments it is applied to
    ret,      \* what it returned
    pc,                \* position of the run in generateEnvAction
    options,           \* FillOptions of the run
    files,             \* per template found by the scan: template text,
                       \* destination content now and before the run
    localIp,           \* what getLocalIp() returns in this environment
    status,            \* outcome of `supabase status -o json`
    userPlaceholders,  \* generateEnvAction: userPlaceholders
    extraVars,         \* generateEnvAction: extraVars
    fileLinesMap,      \* generateEnvAction: fileLinesMap, by template index
    usedPlaceholders,  \* generateEnvAction: usedPlaceholders, insertion order
    supabaseMap,       \* generateEnvAction: supabaseMap
    finalPlaceholders, \* generateEnvAction: finalPlaceholders
    fileIndex,         \* index of the next template of the per-file loop
    exitCode,          \* process exit code: 0, or 1 set by fillCommand
    io,                \* the calls made so far to the file system, the
                       \* network lookup and the status command, in order
    runNumber          \* 1 in the first run over the files, 2 in a second
                       \* run with the same inputs, 0 when no run is made

pureVars == <<called, args, ret>>

runVars == <<pc, options, files, localIp, status, userPlaceholders, extraVars,
             fileLinesMap, usedPlaceholders, supabaseMap, finalPlaceholders,
             fileIndex, exitCode, io, runNumber>>

vars == <<called, args, ret, pc, options, files, localIp, status,
          userPlaceholders, extraVars, fileLinesMap, usedPlaceholders,
          supabaseMap, finalPlaceholders, fileIndex, exitCode, io,
          runNumber>>

----------------------------------------------------------------------------
(* Bounds *)

MaxLines == 2      \* longest line sequence handed to a pure function

MaxFiles == 1      \* most template files a scan finds

MaxFaultFiles == 2 \* most template files of a run in which a file call fails

MaxKey == 3        \* most characters of a raw placeholder name

MaxPair == 3       \* most characters of a pair of a key=value list

MaxText == 5       \* longest file text parsed and rendered back

----------------------------------------------------------------------------
(* Characters and strings *)

\* String.prototype.trim and the regular-expression class \s
WhiteSpace == {" ", "\t", "\r", "\n"}

\* characters the regular-expression '.' does not match
LineTerminator == {"\r", "\n"}

UpperSeq ==
    <<"A","B","C","D","E","F","G","H","I","J","K","L","M",
      "N","O","P","Q","R","S","T","U","V","W","X","Y","Z">>

LowerSeq ==
    <<"a","b","c","d","e","f","g","h","i","j","k","l","m",
      "n","o","p","q","r","s","t","u","v","w","x","y","z">>

Digit == {"0","1","2","3","4","5","6","7","8","9"}

Range(s) == {s[i] : i \in 1..Len(s)}

\* the regular-expression class \w
WordChar == Range(UpperSeq) \cup Range(LowerSeq) \cup Digit \cup {"_"}

\* the regular-expression class [\w.-]
KeyChar == WordChar \cup {".", "-"}

SetMin(S) == CHOOSE x \in S : \A y \in S : x <= y

SetMax(S) == CHOOSE x \in S : \A y \in S : y <= x

SeqsUpTo(S, n) == UNION {[1..k -> S] : k \in 0..n}

trimStart(s) ==
    LET keep == {i \in 1..Len(s) : s[i] \notin WhiteSpace}
    IN  IF keep = {} THEN <<>> ELSE SubSeq(s, SetMin(keep), Len(s))

trim(s) ==
    LET keep == {i \in 1..Len(s) : s[i] \notin WhiteSpace}
    IN  IF keep = {} THEN <<>> ELSE SubSeq(s, SetMin(keep), SetMax(keep))

\* Array.prototype.join
RECURSIVE join(_, _)
join(parts, sep) ==
    IF Len(parts) = 0 THEN <<>>
    ELSE IF Len(parts) = 1 THEN parts[1]
    ELSE parts[1] \o sep \o join(Tail(parts), sep)

\* String.prototype.split on a one-character separator
RECURSIVE split(_, _)
split(s, sep) ==
    LET at == {i \in 1..Len(s) : s[i] = sep}
    IN  IF at = {} THEN <<s>>
        ELSE <<SubSeq(s, 1, SetMin(at) - 1)>>
                 \o split(SubSeq(s, SetMin(at) + 1, Len(s)), sep)

----------------------------------------------------------------------------
(* EnvLine *)

Blank == [type |-> "blank", text |-> <<>>]

Comment(t) == [type |-> "comment", text |-> t]

KeyValue(k, v, r) == [type |-> "keyvalue", key |-> k, value |-> v, raw |-> r]

\* const ENV_LINE_REGEX = /^([\w.-]+)\s*=\s*(.*)$/ : the match of the
\* regular expression against a line, or NoMatch
NoMatch == [matched |-> FALSE]

\* the pattern without the \s* after '=': /^([\w.-]+)\s*=(.*)$/
ENV_LINE_REGEX_KeepSpace(line) ==
    LET nonKey  == {i \in 1..Len(line) : line[i] \notin KeyChar}
        keyEnd  == IF nonKey = {} THEN Len(line) ELSE SetMin(nonKey) - 1
        afterK  == SubSeq(line, keyEnd + 1, Len(line))
        eqRest  == trimStart(afterK)
        val     == IF Len(eqRest) = 0 THEN <<>> ELSE Tail(eqRest)
    IN  IF keyEnd = 0 THEN NoMatch
        ELSE IF Len(eqRest) = 0 \/ eqRest[1] # "=" THEN NoMatch
        ELSE IF \E i \in 1..Len(val) : val[i] \in LineTerminator THEN NoMatch
        ELSE [matched |-> TRUE, key |-> SubSeq(line, 1, keyEnd), value |-> val]

ENV_LINE_REGEX(line) ==
    LET nonKey  == {i \in 1..Len(line) : line[i] \notin KeyChar}
        keyEnd  == IF nonKey = {} THEN Len(line) ELSE SetMin(nonKey) - 1
        afterK  == SubSeq(line, keyEnd + 1, Len(line))
        eqRest  == trimStart(afterK)      \* \s* before '='
        afterEq == IF Len(eqRest) = 0 THEN <<>> ELSE Tail(eqRest)
        val     == trimStart(afterEq)     \* \s* after '=', then (.*)$
    IN  IF keyEnd = 0 THEN NoMatch
        ELSE IF Len(eqRest) = 0 \/ eqRest[1] # "=" THEN NoMatch
        ELSE IF \E i \in 1..Len(val) : val[i] \in LineTerminator THEN NoMatch
        ELSE [matched |-> TRUE, key |-> SubSeq(line, 1, keyEnd), value |-> val]

parseEnvLine(line) ==
    IF trim(line) = <<>> THEN Blank
    ELSE IF trimStart(line)[1] = "#" THEN Comment(line)
    ELSE LET match == ENV_LINE_REGEX(line)
         IN  IF ~match.matched THEN Comment(line)
             ELSE KeyValue(match.key, match.value, line)

\* parseEnvFile: content.split(/\r?\n/).map(parseEnvLine)
stripCR(piece) ==
    IF Len(piece) > 0 /\ piece[Len(piece)] = "\r"
    THEN SubSeq(piece, 1, Len(piece) - 1)
    ELSE piece

splitLines(content) ==
    LET pieces == split(content, "\n")
    IN  [i \in 1..Len(pieces) |->
            IF i < Len(pieces) THEN stripCR(pieces[i]) ELSE pieces[i]]

parseEnvFile(content) ==
    LET lines == splitLines(content)
    IN  [i \in 1..Len(lines) |-> parseEnvLine(lines[i])]

----------------------------------------------------------------------------
(* Map<string, EnvLine> and Record<string, string>: insertion-ordered      *)
(* sequences of <<key, value>> pairs                                       *)

EmptyMap == <<>>

MapKeys(m) == {m[i][1] : i \in 1..Len(m)}

MapHas(m, k) == k \in MapKeys(m)

MapGet(m, k) == m[CHOOSE i \in 1..Len(m) : m[i][1] = k][2]

\* set() on a key already present keeps the key's position
MapSet(m, k, v) ==
    IF MapHas(m, k)
    THEN [i \in 1..Len(m) |-> IF m[i][1] = k THEN <<k, v>> ELSE m[i]]
    ELSE Append(m, <<k, v>>)

MapDelete(m, k) == SelectSeq(m, LAMBDA e : e[1] # k)

MapValues(m) == [i \in 1..Len(m) |-> m[i][2]]

----------------------------------------------------------------------------
(* mergeEnvLocal *)

\* the lookup construction in which the first line of a key is not replaced
\* by a later one
RECURSIVE buildNewMap_FirstWins(_, _)
buildNewMap_FirstWins(newLines, newMap) ==
    IF Len(newLines) = 0 THEN newMap
    ELSE LET ln == Head(newLines)
         IN  buildNewMap_FirstWins(Tail(newLines),
                 IF ln.type = "keyvalue" /\ ~MapHas(newMap, ln.key)
                 THEN MapSet(newMap, ln.key, ln)
                 ELSE newMap)

RECURSIVE buildNewMap(_, _)
buildNewMap(newLines, newMap) ==
    IF Len(newLines) = 0 THEN newMap
    ELSE LET ln == Head(newLines)
         IN  buildNewMap(Tail(newLines),
                 IF ln.type = "keyvalue" THEN MapSet(newMap, ln.key, ln)
                 ELSE newMap)

\* mergeWalk with the final 'else' of the override branch lost: an existing
\* line whose key the new lines lack is not pushed
RECURSIVE mergeWalk_DropUnmatched(_, _, _, _)
mergeWalk_DropUnmatched(existingLines, newMap, override, merged) ==
    IF Len(existingLines) = 0 THEN <<merged, newMap>>
    ELSE LET ln   == Head(existingLines)
             rest == Tail(existingLines)
         IN  IF ln.type # "keyvalue"
             THEN mergeWalk_DropUnmatched(rest, newMap, override,
                                          Append(merged, ln))
             ELSE IF ~override
             THEN mergeWalk_DropUnmatched(rest, MapDelete(newMap, ln.key),
                                          override, Append(merged, ln))
             ELSE IF MapHas(newMap, ln.key)
             THEN mergeWalk_DropUnmatched(rest, MapDelete(newMap, ln.key),
                      override, Append(merged, MapGet(newMap, ln.key)))
             ELSE mergeWalk_DropUnmatched(rest, newMap, override, merged)

\* mergeWalk with newMap.delete(key) lost in the no-override branch: the new
\* line of a key the existing lines hold stays in the lookup
RECURSIVE mergeWalk_NoDelete(_, _, _, _)
mergeWalk_NoDelete(existingLines, newMap, override, merged) ==
    IF Len(existingLines) = 0 THEN <<merged, newMap>>
    ELSE LET ln   == Head(existingLines)
             rest == Tail(existingLines)
         IN  IF ln.type # "keyvalue"
             THEN mergeWalk_NoDelete(rest, newMap, override,
                                     Append(merged, ln))
             ELSE IF ~override
             THEN mergeWalk_NoDelete(rest, newMap, override,
                                     Append(merged, ln))
             ELSE IF MapHas(newMap, ln.key)
             THEN mergeWalk_NoDelete(rest, MapDelete(newMap, ln.key),
                      override, Append(merged, MapGet(newMap, ln.key)))
             ELSE mergeWalk_NoDelete(rest, newMap, override,
                                     Append(merged, ln))

\* mergeWalk that 'continue's on a non-KeyValue line without pushing it
RECURSIVE mergeWalk_SkipNonKV(_, _, _, _)
mergeWalk_SkipNonKV(existingLines, newMap, override, merged) ==
    IF Len(existingLines) = 0 THEN <<merged, newMap>>
    ELSE LET ln   == Head(existingLines)
             rest == Tail(existingLines)
         IN  IF ln.type # "keyvalue"
             THEN mergeWalk_SkipNonKV(rest, newMap, override, merged)
             ELSE IF ~override
             THEN mergeWalk_SkipNonKV(rest, MapDelete(newMap, ln.key),
                                      override, Append(merged, ln))
             ELSE IF MapHas(newMap, ln.key)
             THEN mergeWalk_SkipNonKV(rest, MapDelete(newMap, ln.key),
                      override, Append(merged, MapGet(newMap, ln.key)))
             ELSE mergeWalk_SkipNonKV(rest, newMap, override,
                                      Append(merged, ln))

\* the walk over existingLines; returns the pair <<merged, newMap>>
RECURSIVE mergeWalk(_, _, _, _)
mergeWalk(existingLines, newMap, override, merged) ==
    IF Len(existingLines) = 0 THEN <<merged, newMap>>
    ELSE LET ln   == Head(existingLines)
             rest == Tail(existingLines)
         IN  IF ln.type # "keyvalue"
             THEN mergeWalk(rest, newMap, override, Append(merged, ln))
             ELSE IF ~override
             THEN mergeWalk(rest, MapDelete(newMap, ln.key), override,
                            Append(merged, ln))
             ELSE IF MapHas(newMap, ln.key)
             THEN mergeWalk(rest, MapDelete(newMap, ln.key), override,
                            Append(merged, MapGet(newMap, ln.key)))
             ELSE mergeWalk(rest, newMap, override, Append(merged, ln))

mergeEnvLocal(existingLines, newLines, override) ==
    LET walked == mergeWalk(existingLines, buildNewMap(newLines, EmptyMap),
                            override, <<>>)
    IN  walked[1] \o MapValues(walked[2])

----------------------------------------------------------------------------
(* writeEnvFile; its parameter extraVars is named extra here *)

RECURSIVE buildLinesMap(_, _)
buildLinesMap(lines, linesMap) ==
    IF Len(lines) = 0 THEN linesMap
    ELSE LET ln == Head(lines)
         IN  buildLinesMap(Tail(lines),
                 IF ln.type = "keyvalue" THEN MapSet(linesMap, ln.key, ln)
                 ELSE linesMap)

\* the loop over Object.entries(extraVars)
RECURSIVE applyExtraVars(_, _, _)
applyExtraVars(extra, linesMap, override) ==
    IF Len(extra) = 0 THEN linesMap
    ELSE LET k    == Head(extra)[1]
             v    == Head(extra)[2]
             line == KeyValue(k, v, k \o <<"=">> \o v)
         IN  applyExtraVars(Tail(extra),
                 IF MapHas(linesMap, k)
                 THEN IF override THEN MapSet(linesMap, k, line) ELSE linesMap
                 ELSE MapSet(linesMap, k, line),
                 override)

\* the loop that converts the Map back to an array; returns the pair
\* <<finalLines, linesMap>>
RECURSIVE collectFinalLines(_, _, _)
collectFinalLines(lines, linesMap, finalLines) ==
    IF Len(lines) = 0 THEN <<finalLines, linesMap>>
    ELSE LET ln == Head(lines)
         IN  IF ln.type # "keyvalue"
             THEN collectFinalLines(Tail(lines), linesMap,
                                    Append(finalLines, ln))
             ELSE IF MapHas(linesMap, ln.key)
             THEN collectFinalLines(Tail(lines), MapDelete(linesMap, ln.key),
                                    Append(finalLines, MapGet(linesMap, ln.key)))
             ELSE collectFinalLines(Tail(lines), linesMap, finalLines)

\* rendering with the Blank and Comment texts swapped for the empty string
renderLines_DropCommentText(finalLines) ==
    join([i \in 1..Len(finalLines) |->
              IF finalLines[i].type = "keyvalue"
              THEN finalLines[i].key \o <<"=">> \o finalLines[i].value
              ELSE <<>>],
         <<"\n">>)

\* the rendering of finalLines: output.join('\n')
renderLines(finalLines) ==
    join([i \in 1..Len(finalLines) |->
              IF finalLines[i].type = "keyvalue"
              THEN finalLines[i].key \o <<"=">> \o finalLines[i].value
              ELSE finalLines[i].text],
         <<"\n">>)

\* The lines left in linesMap after the loop over lines are the objects
\* created for the extraVars keys that lines lack; finalLines.includes, which
\* compares by identity, finds none of them, so each is pushed.
finalLinesOf(lines, extra, override) ==
    LET linesMap  == applyExtraVars(extra, buildLinesMap(lines, EmptyMap),
                                    override)
        collected == collectFinalLines(lines, linesMap, <<>>)
    IN  collected[1] \o MapValues(collected[2])

\* the text handed to fs.writeFileSync
writeEnvFile(lines, extra, override) ==
    renderLines(finalLinesOf(lines, extra, override))

----------------------------------------------------------------------------
(* normalizePlaceholderName, generateEnvLocalLines *)

toLowerCase(s) ==
    [i \in 1..Len(s) |->
        IF \E j \in 1..26 : UpperSeq[j] = s[i]
        THEN LowerSeq[CHOOSE j \in 1..26 : UpperSeq[j] = s[i]]
        ELSE s[i]]

\* the conversion without its trim
normalizePlaceholderName_NoTrim(raw) ==
    LET lowered == toLowerCase(raw)
    IN  [i \in 1..Len(lowered) |-> IF lowered[i] = "_" THEN "-" ELSE lowered[i]]

normalizePlaceholderName(raw) ==
    LET lowered == toLowerCase(trim(raw))
    IN  [i \in 1..Len(lowered) |-> IF lowered[i] = "_" THEN "-" ELSE lowered[i]]

\* value.match(/^<(.*)>$/): whether the string is wholly <...>
isPlaceholderToken(s) ==
    /\ Len(s) >= 2
    /\ s[1] = "<"
    /\ s[Len(s)] = ">"
    /\ \A i \in 2..(Len(s) - 1) : s[i] \notin LineTerminator

\* match[1]
tokenInterior(s) == SubSeq(s, 2, Len(s) - 1)

\* PlaceholdersMap is a plain object: obj[name] and (name in obj) fall back
\* to Object.prototype when obj has no own property of that name.  Of the
\* members of Object.prototype (constructor, hasOwnProperty, isPrototypeOf,
\* propertyIsEnumerable, toLocaleString, toString, valueOf, __proto__, ...)
\* only 'constructor' is a name normalizePlaceholderName can return.
sConstructor == <<"c","o","n","s","t","r","u","c","t","o","r">>

ObjectPrototypeNames == {sConstructor}

\* `${Object}`
sFunctionObject ==
    <<"f","u","n","c","t","i","o","n"," ","O","b","j","e","c","t","(",")",
      " ","{"," ","[","n","a","t","i","v","e"," ","c","o","d","e","]"," ","}">>

\* a value that may be undefined
Undefined == [defined |-> FALSE]

Some(v) == [defined |-> TRUE, value |-> v]

\* name in obj
ObjIn(obj, name) == MapHas(obj, name) \/ name \in ObjectPrototypeNames

\* obj[name], a function of Object.prototype given as its string conversion
ObjGet(obj, name) ==
    IF MapHas(obj, name) THEN Some(MapGet(obj, name))
    ELSE IF name \in ObjectPrototypeNames THEN Some(sFunctionObject)
    ELSE Undefined

\* the resolution with a pattern that is not anchored at the start of the
\* value, /<(.*)>$/
resolveLine_Unanchored(line, placeholderMap) ==
    IF line.type # "keyvalue" THEN line
    ELSE LET rawValue == trim(line.value)
             opens    == {i \in 1..Len(rawValue) : rawValue[i] = "<"}
             token    == IF opens = {} THEN <<>>
                         ELSE SubSeq(rawValue, SetMin(opens), Len(rawValue))
         IN  IF ~isPlaceholderToken(token) THEN line
             ELSE LET placeholderName ==
                          normalizePlaceholderName(tokenInterior(token))
                      replacement == ObjGet(placeholderMap, placeholderName)
                  IN  IF replacement.defined
                      THEN KeyValue(line.key, replacement.value,
                                    line.key \o <<"=">> \o replacement.value)
                      ELSE line

\* the resolution that looks the name up as it is written in the token
resolveLine_RawName(line, placeholderMap) ==
    IF line.type # "keyvalue" THEN line
    ELSE LET rawValue == trim(line.value)
         IN  IF ~isPlaceholderToken(rawValue) THEN line
             ELSE LET placeholderName == tokenInterior(rawValue)
                      replacement == ObjGet(placeholderMap, placeholderName)
                  IN  IF replacement.defined
                      THEN KeyValue(line.key, replacement.value,
                                    line.key \o <<"=">> \o replacement.value)
                      ELSE line

resolveLine(line, placeholderMap) ==
    IF line.type # "keyvalue" THEN line
    ELSE LET rawValue == trim(line.value)
         IN  IF ~isPlaceholderToken(rawValue) THEN line
             ELSE LET placeholderName ==
                          normalizePlaceholderName(tokenInterior(rawValue))
                      replacement == ObjGet(placeholderMap, placeholderName)
                  IN  IF replacement.defined
                      THEN KeyValue(line.key, replacement.value,
                                    line.key \o <<"=">> \o replacement.value)
                      ELSE line

generateEnvLocalLines(envExampleLines, placeholderMap) ==
    [i \in 1..Len(envExampleLines) |->
        resolveLine(envExampleLines[i], placeholderMap)]

----------------------------------------------------------------------------
(* parseKeyValuePairs, validatePlaceholderKey *)

sProto == <<"_","_","p","r","o","t","o","_","_">>

\* result[k] = v on a plain object: an assignment of a string to __proto__
\* creates no property.  (The tables of the model hold no integer-like key,
\* which a plain object would list first.)
ObjSet(obj, k, v) == IF k = sProto THEN obj ELSE MapSet(obj, k, v)

\* the outcome of a call that may throw
Thrown == [thrown |-> TRUE]

Returned(v) == [thrown |-> FALSE, value |-> v]

\* throw new Error(message)
Error(message) == [thrown |-> TRUE, message |-> message]

\* the loop over input.split(','), leaving out a pair without key or value
RECURSIVE parsePairs_SkipMalformed(_, _)
parsePairs_SkipMalformed(pairs, result) ==
    IF Len(pairs) = 0 THEN Returned(result)
    ELSE LET parts == split(Head(pairs), "=")
             k     == parts[1]
         IN  IF k = <<>> \/ Len(parts) < 2
             THEN parsePairs_SkipMalformed(Tail(pairs), result)
             ELSE IF parts[2] = <<>>
             THEN parsePairs_SkipMalformed(Tail(pairs), result)
             ELSE parsePairs_SkipMalformed(Tail(pairs),
                             ObjSet(result, trim(k), trim(parts[2])))

\* the loop over input.split(',') that takes all the text after the first
\* '=' as the value
RECURSIVE parsePairs_WholeRest(_, _)
parsePairs_WholeRest(pairs, result) ==
    IF Len(pairs) = 0 THEN Returned(result)
    ELSE LET parts == split(Head(pairs), "=")
             k     == parts[1]
         IN  IF k = <<>> \/ Len(parts) < 2 THEN Thrown
             ELSE IF parts[2] = <<>> THEN Thrown
             ELSE parsePairs_WholeRest(Tail(pairs),
                      ObjSet(result, trim(k),
                             trim(join(Tail(parts), <<"=">>))))

\* the loop over input.split(',')
RECURSIVE parsePairs(_, _)
parsePairs(pairs, result) ==
    IF Len(pairs) = 0 THEN Returned(result)
    ELSE LET parts == split(Head(pairs), "=")
             k     == parts[1]
         IN  IF k = <<>> \/ Len(parts) < 2 THEN Thrown
             ELSE IF parts[2] = <<>> THEN Thrown
             ELSE parsePairs(Tail(pairs),
                             ObjSet(result, trim(k), trim(parts[2])))

parseKeyValuePairs(input) ==
    IF trim(input) = <<>> THEN Returned(EmptyMap)
    ELSE parsePairs(split(input, ","), EmptyMap)

\* the pattern with '.' in its class
PLACEHOLDER_REGEX_AllowDot(str) ==
    /\ Len(str) >= 1
    /\ \A i \in 1..Len(str) : str[i] \in KeyChar

\* const PLACEHOLDER_REGEX = /^[a-zA-Z0-9_-]+$/
PLACEHOLDER_REGEX(str) ==
    /\ Len(str) >= 1
    /\ \A i \in 1..Len(str) : str[i] \in WordChar \cup {"-"}

sInvalidPlaceholderName ==
    <<"I","n","v","a","l","i","d"," ","p","l","a","c","e","h","o","l","d",
      "e","r"," ","n","a","m","e"," ","\"">>

sMustMatch ==
    <<"\"","."," ","M","u","s","t"," ","m","a","t","c","h"," ">>

sPlaceholderRegexSource ==
    <<"/","^","[","a","-","z","A","-","Z","0","-","9","_","-","]","+","$",
      "/">>

\* `Invalid placeholder name "${rawKey}". Must match ${PLACEHOLDER_REGEX}`
invalidPlaceholderMessage(rawKey) ==
    sInvalidPlaceholderName \o rawKey \o sMustMatch \o sPlaceholderRegexSource

validatePlaceholderKey(rawKey) ==
    LET normalized == normalizePlaceholderName(rawKey)
    IN  IF ~PLACEHOLDER_REGEX(normalized)
        THEN Error(invalidPlaceholderMessage(rawKey))
        ELSE Returned(normalized)

\* generateEnvAction step 1, the loop over Object.keys(userValues), which
\* builds userPlaceholders
RECURSIVE validateUserValues(_, _)
validateUserValues(userValues, placeholders) ==
    IF Len(userValues) = 0 THEN Returned(placeholders)
    ELSE LET normalized == validatePlaceholderKey(Head(userValues)[1])
         IN  IF normalized.thrown THEN normalized
             ELSE validateUserValues(Tail(userValues),
                      ObjSet(placeholders, normalized.value,
                             Head(userValues)[2]))

----------------------------------------------------------------------------
(* fetchFromSupabaseJSON, as generateEnvAction imports it *)

toUpperCase(s) ==
    [i \in 1..Len(s) |->
        IF \E j \in 1..26 : LowerSeq[j] = s[i]
        THEN UpperSeq[CHOOSE j \in 1..26 : LowerSeq[j] = s[i]]
        ELSE s[i]]

\* the loop over placeholderNames; jsonData is the parsed object, a table of
\* its string-valued fields
RECURSIVE lookupUpperNames(_, _, _)
lookupUpperNames(placeholderNames, jsonData, placeholders) ==
    IF Len(placeholderNames) = 0 THEN placeholders
    ELSE LET missingName == Head(placeholderNames)
             upperName   == toUpperCase(missingName)
         IN  lookupUpperNames(Tail(placeholderNames), jsonData,
                 IF MapHas(jsonData, upperName)
                        /\ MapGet(jsonData, upperName) # <<>>
                 THEN ObjSet(placeholders, missingName,
                             MapGet(jsonData, upperName))
                 ELSE placeholders)

\* result is the outcome of spawnSync: kind "error" (could not launch),
\* "nonzero" (exit status not 0), "notjson" (JSON.parse throws), "object",
\* "null" (stdout is the JSON text null: jsonData[upperName] throws a
\* TypeError outside the try block) or "scalar" (a JSON number, string,
\* boolean or array, on which jsonData[upperName] is undefined)
fetchFromSupabaseJSON(placeholderNames, result) ==
    IF Len(placeholderNames) = 0 THEN Returned(EmptyMap)
    ELSE IF result.kind = "error" THEN Returned(EmptyMap)
    ELSE IF result.kind = "nonzero" THEN Returned(EmptyMap)
    ELSE IF result.kind = "notjson" THEN Returned(EmptyMap)
    ELSE IF result.kind = "null" THEN Thrown
    ELSE IF result.kind = "scalar" THEN Returned(EmptyMap)
    ELSE Returned(lookupUpperNames(placeholderNames, result.json, EmptyMap))

----------------------------------------------------------------------------
(* generateEnvAction: the steps between the scan and the per-file loop *)

\* the placeholders a template's lines use, added to a Set in line order
RECURSIVE addUsedPlaceholders(_, _)
addUsedPlaceholders(lines, used) ==
    IF Len(lines) = 0 THEN used
    ELSE LET ln   == Head(lines)
             name == normalizePlaceholderName(tokenInterior(trim(ln.value)))
         IN  addUsedPlaceholders(Tail(lines),
                 IF /\ ln.type = "keyvalue"
                    /\ isPlaceholderToken(trim(ln.value))
                    /\ name \notin Range(used)
                 THEN Append(used, name)
                 ELSE used)

sHostIp == <<"h","o","s","t","-","i","p">>

\* [...usedPlaceholders].filter((p) => !(p in userPlaceholders))
missingPlaceholders(used, placeholders) ==
    SelectSeq(used, LAMBDA name : ~ObjIn(placeholders, name))

\* an object spread: the own properties of a table copied into another
RECURSIVE spread(_, _)
spread(target, source) ==
    IF Len(source) = 0 THEN target
    ELSE spread(ObjSet(target, Head(source)[1], Head(source)[2]), Tail(source))

\* the spread written in the other order
combinePlaceholders_UserFirst(fromSupabase, fromUser) ==
    spread(spread(EmptyMap, fromUser), fromSupabase)

\* { ...supabaseMap, ...userPlaceholders }
combinePlaceholders(fromSupabase, fromUser) ==
    spread(spread(EmptyMap, fromSupabase), fromUser)

\* const canOverride = !options.merge && options.override
canOverride(opts) == ~opts.merge /\ opts.override

----------------------------------------------------------------------------
(* Inputs of the pure-function specifications *)

\* texts of single lines, as they stand in a template or destination file
tA1 == <<"A","=","1">>
tA2 == <<"A","=","2">>
tB1 == <<"B","=","1">>
tBs2 == <<"B"," ","="," ","2">>
tNote == <<"#"," ","c">>
tEmpty == <<>>

LineTexts == {tA1, tA2, tB1, tBs2, tNote, tEmpty}

\* line sequences as parseEnvFile produces them
ParsedLines == {parseEnvLine(t) : t \in LineTexts}

LineSeqs == SeqsUpTo(ParsedLines, MaxLines)

NoArgs == [none |-> TRUE]

----------------------------------------------------------------------------
(* Specification of mergeEnvLocal as a pure function *)

\* the run is not started in the pure-function specifications
RunIdle ==
    /\ pc = "idle"
    /\ options = NoArgs
    /\ files = <<>>
    /\ localIp = Undefined
    /\ status = NoArgs
    /\ userPlaceholders = EmptyMap
    /\ extraVars = EmptyMap
    /\ fileLinesMap = <<>>
    /\ usedPlaceholders = <<>>
    /\ supabaseMap = EmptyMap
    /\ finalPlaceholders = EmptyMap
    /\ fileIndex = 0
    /\ exitCode = 0
    /\ io = <<>>
    /\ runNumber = 0

InitMerge ==
    /\ RunIdle
    /\ called = "none"
    /\ args \in [existingLines : LineSeqs, newLines : LineSeqs,
                 override : BOOLEAN]
    /\ ret = <<>>

CallMergeEnvLocal ==
    /\ called = "none"
    /\ called' = "mergeEnvLocal"
    /\ ret' = mergeEnvLocal(args.existingLines, args.newLines, args.override)
    /\ UNCHANGED <<args, runVars>>

NextMerge == CallMergeEnvLocal

SpecMerge == InitMerge /\ [][NextMerge]_vars

KVKeys(lines) ==
    {lines[i].key : i \in {j \in 1..Len(lines) : lines[j].type = "keyvalue"}}

KVAt(lines) == {i \in 1..Len(lines) : lines[i].type = "keyvalue"}

MergeDone == called = "mergeEnvLocal"

\* C1: every key carried by a KeyValue line of the existing lines is carried
\* by a KeyValue line of mergeEnvLocal's result, for both values of override.
C1_MergeKeepsExistingKeys ==
    MergeDone => KVKeys(args.existingLines) \subseteq KVKeys(ret)

\* C1 witness: an override merge of an existing key that the new lines lack
C1_Witness ==
    /\ MergeDone
    /\ args.override
    /\ \E k \in KVKeys(args.existingLines) : k \notin KVKeys(args.newLines)
    /\ KVKeys(args.existingLines) \cap KVKeys(args.newLines) # {}

KVLines(lines) == SelectSeq(lines, LAMBDA ln : ln.type = "keyvalue")

\* the values the KeyValue lines of a sequence carry for a key
ValuesOf(lines, k) == {lines[i].value : i \in {j \in KVAt(lines) : lines[j].key = k}}

\* the value of the last KeyValue line of a sequence for a key it carries
LastValueOf(lines, k) ==
    lines[SetMax({j \in KVAt(lines) : lines[j].key = k})].value

\* C2: without override every KeyValue line of the existing lines is kept
\* unchanged at its position, and the KeyValue lines of the result whose key
\* the existing lines carry are exactly the existing KeyValue lines in their
\* order, so a key present on both sides carries the existing value only.
C2_NoOverrideKeepsExisting ==
    (MergeDone /\ ~args.override) =>
        /\ Len(ret) >= Len(args.existingLines)
        /\ \A i \in KVAt(args.existingLines) : ret[i] = args.existingLines[i]
        /\ SelectSeq(ret, LAMBDA ln : /\ ln.type = "keyvalue"
                                      /\ ln.key \in KVKeys(args.existingLines))
             = KVLines(args.existingLines)
        /\ \A k \in KVKeys(args.existingLines) \cap KVKeys(args.newLines) :
               ValuesOf(ret, k) = ValuesOf(args.existingLines, k)

\* C2 witness: a merge without override where a key is on both sides with
\* different values
C2_Witness ==
    /\ MergeDone
    /\ ~args.override
    /\ \E k \in KVKeys(args.existingLines) \cap KVKeys(args.newLines) :
           ValuesOf(args.newLines, k) \cap ValuesOf(args.existingLines, k) = {}

\* C3: with override every KeyValue line of the result whose key is on both
\* sides carries the value of the new lines' last line for the key, and every
\* KeyValue line whose key only the existing lines carry keeps the existing
\* value.
C3_OverrideAdoptsNewValues ==
    (MergeDone /\ args.override) =>
        \A i \in KVAt(ret) :
            LET k == ret[i].key
            IN  /\ (k \in KVKeys(args.existingLines) \cap KVKeys(args.newLines))
                       => ret[i].value = LastValueOf(args.newLines, k)
                /\ (k \in KVKeys(args.existingLines) \ KVKeys(args.newLines))
                       => ret[i] = args.existingLines[i]

\* C5: merging into an empty existing side returns exactly the new lines,
\* line for line, Comment and Blank lines included, for both values of
\* override.
C5_EmptyExistingReturnsNewLines ==
    (MergeDone /\ args.existingLines = <<>>) => ret = args.newLines

\* C9: the first |E| lines of the result correspond one to one with the
\* existing lines: a Comment or Blank line is there verbatim, a KeyValue line
\* has a KeyValue line of the same key in its place; every line after them is
\* a KeyValue line, so the Comment and Blank lines of the result are exactly
\* those of the existing lines, in their order and position.
C9_ExistingCommentsAndBlanksKept ==
    MergeDone =>
        /\ Len(ret) >= Len(args.existingLines)
        /\ \A i \in 1..Len(args.existingLines) :
               IF args.existingLines[i].type = "keyvalue"
               THEN /\ ret[i].type = "keyvalue"
                    /\ ret[i].key = args.existingLines[i].key
               ELSE ret[i] = args.existingLines[i]
        /\ \A j \in (Len(args.existingLines) + 1)..Len(ret) :
               ret[j].type = "keyvalue"

\* C9 witness: existing lines with a Comment or Blank next to a KeyValue
\* line, merged with new lines that add a key
C9_Witness ==
    /\ MergeDone
    /\ \E i \in 1..Len(args.existingLines) :
           args.existingLines[i].type # "keyvalue"
    /\ KVAt(args.existingLines) # {}
    /\ Len(ret) > Len(args.existingLines)

\* the positions of the new lines at which a key the existing lines lack
\* occurs for the first time
FirstOfNewKeys(existingLines, newLines) ==
    {j \in KVAt(newLines) :
        /\ newLines[j].key \notin KVKeys(existingLines)
        /\ \A i \in KVAt(newLines) :
               newLines[i].key = newLines[j].key => j <= i}

\* the last line of a sequence for a key it carries
LastLineOf(lines, k) == lines[SetMax({j \in KVAt(lines) : lines[j].key = k})]

\* C21: the lines of mergeEnvLocal's result after the first |E| lines are
\* one KeyValue line for each key of the new lines that the existing lines
\* lack, in the order in which those keys first occur in the new lines, each
\* being the last new line of its key; no key of the existing lines is
\* appended.
C21_NewKeysAppendedInOrder ==
    MergeDone =>
        LET E        == args.existingLines
            N        == args.newLines
            firsts   == FirstOfNewKeys(E, N)
            appended == SubSeq(ret, Len(E) + 1, Len(ret))
        IN  /\ Len(ret) = Len(E) + Cardinality(firsts)
            /\ \A j \in firsts :
                   appended[Cardinality({i \in firsts : i <= j})]
                       = LastLineOf(N, N[j].key)
            /\ KVKeys(appended) \cap KVKeys(E) = {}

C21_Witness ==
    /\ MergeDone
    /\ args.existingLines = <<parseEnvLine(tB1)>>
    /\ args.newLines = <<parseEnvLine(tA1), parseEnvLine(tA2)>>
    /\ ret = <<parseEnvLine(tB1), parseEnvLine(tA2)>>

\* the Comment and Blank lines of a sequence, in their order
NonKVLines(lines) == SelectSeq(lines, LAMBDA ln : ln.type # "keyvalue")

\* C22: for non-empty existing lines, the Comment and Blank lines of the new
\* lines are all in mergeEnvLocal's result, as a block that ends the result
\* after the existing lines and the merged KeyValue lines.
C22_NewCommentsAppendedAsBlock ==
    (MergeDone /\ args.existingLines # <<>>) =>
        LET block == NonKVLines(args.newLines)
        IN  /\ Len(ret) >= Len(args.existingLines) + Len(block)
            /\ SubSeq(ret, Len(ret) - Len(block) + 1, Len(ret)) = block

----------------------------------------------------------------------------
(* Specification of generateEnvLocalLines as a pure function *)

\* template lines with a whole-value token, an inline token, a literal
tFb ==
    <<"F","=","<","b",">">>

tGB ==
    <<"G","="," ","<","B","_","B",">"," ">>

tFc ==
    <<"F","=","<","c","o","n","s","t","r","u","c","t","o","r",">">>

tInline ==
    <<"U","=","x","<","b",">">>

tP1 ==
    <<"P","=","1">>

\* placeholder names and values of the tables
sB ==
    <<"b">>

sBB ==
    <<"b","-","b">>

sV ==
    <<"v">>

sW ==
    <<"w">>

tInner == <<"H","=","<"," ","b","-","b"," ",">">>

TemplateLineTexts == {tFb, tGB, tFc, tInline, tInner, tP1, tNote, tEmpty}

TemplateLineSeqs ==
    SeqsUpTo({parseEnvLine(t) : t \in TemplateLineTexts}, MaxLines)

\* the tables over a set of names, each name absent or bound to a value
RECURSIVE TablesOver(_, _)
TablesOver(names, values) ==
    IF Len(names) = 0 THEN {EmptyMap}
    ELSE LET rest == TablesOver(Tail(names), values)
         IN  rest \cup {<<<<Head(names), v>>>> \o t : v \in values, t \in rest}

PlaceholderTables == TablesOver(<<sB, sBB>>, {sV, sW})

InitResolve ==
    /\ RunIdle
    /\ called = "none"
    /\ args \in [envExampleLines : TemplateLineSeqs,
                 placeholderMap : PlaceholderTables]
    /\ ret = <<>>

CallGenerateEnvLocalLines ==
    /\ called = "none"
    /\ called' = "generateEnvLocalLines"
    /\ ret' = generateEnvLocalLines(args.envExampleLines, args.placeholderMap)
    /\ UNCHANGED <<args, runVars>>

NextResolve == CallGenerateEnvLocalLines

SpecResolve == InitResolve /\ [][NextResolve]_vars

ResolveDone == called = "generateEnvLocalLines"

\* C6: every KeyValue line whose trimmed value is a whole-value token <name>
\* with a normalized name that has no entry in the table is returned
\* unchanged, key, value and raw.
C6_UnresolvedTokenKept ==
    ResolveDone =>
        \A i \in KVAt(args.envExampleLines) :
            LET ln    == args.envExampleLines[i]
                token == trim(ln.value)
            IN  (/\ isPlaceholderToken(token)
                 /\ ~MapHas(args.placeholderMap,
                            normalizePlaceholderName(tokenInterior(token))))
                    => ret[i] = ln

\* the string is wholly of the form <...>
WholeToken(s) == Len(s) >= 2 /\ Head(s) = "<" /\ s[Len(s)] = ">"

\* the lines resolution has nothing to do with: Comment lines, Blank lines
\* and KeyValue lines whose trimmed value is not wholly a token
Tokenless(ln) == ln.type = "keyvalue" => ~WholeToken(trim(ln.value))

\* C16: generateEnvLocalLines returns unchanged every Comment line, every
\* Blank line and every KeyValue line whose trimmed value is not wholly of
\* the form <...>, a token inside other text included; a sequence of such
\* lines only is returned as it is.
C16_OnlyWholeTokensSubstituted ==
    ResolveDone =>
        /\ Len(ret) = Len(args.envExampleLines)
        /\ \A i \in 1..Len(args.envExampleLines) :
               Tokenless(args.envExampleLines[i])
                   => ret[i] = args.envExampleLines[i]
        /\ (\A i \in 1..Len(args.envExampleLines) :
               Tokenless(args.envExampleLines[i]))
                   => ret = args.envExampleLines

C16_Witness ==
    /\ ResolveDone
    /\ Len(args.envExampleLines) = 2
    /\ args.envExampleLines[1] = parseEnvLine(tInline)
    /\ args.envExampleLines[2] = parseEnvLine(tFb)
    /\ MapHas(args.placeholderMap, sB)
    /\ ret[1] = args.envExampleLines[1]
    /\ ret[2] # args.envExampleLines[2]

\* the normalized name of a value that is wholly a token
NameOf(value) ==
    normalizePlaceholderName(SubSeq(trim(value), 2, Len(trim(value)) - 1))

\* C25: generateEnvLocalLines returns as many lines as it is given, each of
\* the type and key of the line at its position; a KeyValue line whose
\* trimmed value is <name> with the normalized name in the table becomes the
\* KeyValue line of the same key, the table's value for the normalized name
\* and raw key=value.
C25_ResolvedLineShape ==
    ResolveDone =>
        /\ Len(ret) = Len(args.envExampleLines)
        /\ \A i \in 1..Len(args.envExampleLines) :
               LET ln == args.envExampleLines[i]
               IN  /\ ret[i].type = ln.type
                   /\ ln.type = "keyvalue" =>
                         /\ ret[i].key = ln.key
                         /\ (/\ WholeToken(trim(ln.value))
                             /\ MapHas(args.placeholderMap, NameOf(ln.value)))
                               => LET v == MapGet(args.placeholderMap,
                                                  NameOf(ln.value))
                                  IN  ret[i] = KeyValue(ln.key, v,
                                                   ln.key \o <<"=">> \o v)

\* C25 witness: <B_B> between spaces and < b-b > have both been resolved
\* through the entry b-b
C25_Witness ==
    /\ ResolveDone
    /\ args.envExampleLines = <<parseEnvLine(tGB), parseEnvLine(tInner)>>
    /\ MapHas(args.placeholderMap, sBB)
    /\ ret[1].value = MapGet(args.placeholderMap, sBB)
    /\ ret[2].value = MapGet(args.placeholderMap, sBB)
    /\ ret[2].raw = <<"H", "=">> \o MapGet(args.placeholderMap, sBB)

----------------------------------------------------------------------------
(* Specification of the precedence rule of generateEnvAction's step 8 *)

SourceTables == TablesOver(<<sB, sHostIp>>, {sV, sW})

InitCombine ==
    /\ RunIdle
    /\ called = "none"
    /\ args \in [fromSupabase : SourceTables, fromUser : SourceTables]
    /\ ret = <<>>

CallCombinePlaceholders ==
    /\ called = "none"
    /\ called' = "combinePlaceholders"
    /\ ret' = combinePlaceholders(args.fromSupabase, args.fromUser)
    /\ UNCHANGED <<args, runVars>>

NextCombine == CallCombinePlaceholders

SpecCombine == InitCombine /\ [][NextCombine]_vars

CombineDone == called = "combinePlaceholders"

\* C7: the final table maps every name of the user table to the user table's
\* value, also when the external-status table holds the name, and takes the
\* external-status value for the names the user table lacks only.
C7_UserOutranksStatus ==
    CombineDone =>
        /\ MapKeys(ret) = MapKeys(args.fromUser) \cup MapKeys(args.fromSupabase)
        /\ \A n \in MapKeys(args.fromUser) :
               MapGet(ret, n) = MapGet(args.fromUser, n)
        /\ \A n \in MapKeys(args.fromSupabase) \ MapKeys(args.fromUser) :
               MapGet(ret, n) = MapGet(args.fromSupabase, n)

\* C7 witness: a name, host-ip, held by both tables with different values
C7_Witness ==
    /\ CombineDone
    /\ MapHas(args.fromUser, sHostIp)
    /\ MapHas(args.fromSupabase, sHostIp)
    /\ MapGet(args.fromUser, sHostIp) # MapGet(args.fromSupabase, sHostIp)

----------------------------------------------------------------------------
(* Specification of parsing a file text and rendering it back *)

Sigma == {"a", "=", " ", "#", "\r", "\n"}

FileTexts == SeqsUpTo(Sigma, MaxText)

InitParse ==
    /\ RunIdle
    /\ called = "none"
    /\ args \in [content : FileTexts]
    /\ ret = <<>>

CallParseAndRender ==
    /\ called = "none"
    /\ called' = "parseEnvFile"
    /\ ret' = renderLines(parseEnvFile(args.content))
    /\ UNCHANGED <<args, runVars>>

NextParse == CallParseAndRender

SpecParse == InitParse /\ [][NextParse]_vars

ParseDone == called = "parseEnvFile"

\* a text with each \r\n replaced by \n
RECURSIVE replaceCRLF(_)
replaceCRLF(s) ==
    IF Len(s) = 0 THEN <<>>
    ELSE IF Len(s) >= 2 /\ s[1] = "\r" /\ s[2] = "\n"
    THEN <<"\n">> \o replaceCRLF(SubSeq(s, 3, Len(s)))
    ELSE <<s[1]>> \o replaceCRLF(Tail(s))

\* a line that is not empty and holds whitespace only
WhitespaceOnly(line) ==
    line # <<>> /\ \A i \in 1..Len(line) : line[i] \in WhiteSpace

\* an assignment line with whitespace directly before or after the '=' that
\* follows its key
SpacedAssignment(line) ==
    /\ ENV_LINE_REGEX(line).matched
    /\ LET k == Len(ENV_LINE_REGEX(line).key)
       IN  \/ line[k + 1] \in WhiteSpace
           \/ /\ Len(line) >= k + 2
              /\ line[k + 2] \in WhiteSpace

\* the physical lines of a text: the pieces between \n, less a closing \r
PhysicalLines(content) == splitLines(content)

----------------------------------------------------------------------------
(* A run of the fill command: fillCommand calling generateEnvAction *)

\* template texts
tmplScenario ==
    <<"U","R","L","=","<","s","u","p","a","b","a","s","e","-","u","r","l",
      ">","\n","P","O","R","T","=","3","0","0","0","\n","#"," ","n","o","t",
      "e","\n","\n">>

tmplPort ==
    <<"P","O","R","T","=","3","0","0","0">>

tmplBuiltins ==
    <<"A","=","<","s","u","p","a","b","a","s","e","-","u","r","l",">","\n",
      "B","=","<","s","u","p","a","b","a","s","e","-","a","n","o","n","-",
      "k","e","y",">","\n","C","=","<","S","U","P","A","B","A","S","E","_",
      "S","E","R","V","I","C","E","_","R","O","L","E","_","K","E","Y",">",
      "\n","D","=","<","s","u","p","a","b","a","s","e","-","g","r","a","p",
      "h","q","l","-","u","r","l",">","\n","E","=","<","s","u","p","a","b",
      "a","s","e","-","d","b","-","u","r","l",">","\n","H","=","<","h","o",
      "s","t","-","i","p",">">>

\* destination files present before the run
destPort ==
    <<"P","O","R","T","=","9","9","9","9">>

destMine ==
    <<"#"," ","m","i","n","e","\n","P","O","R","T","=","9","9","9","9","\n",
      "X","=","1">>

\* --values and --vars option texts
valuesUrl ==
    <<"s","u","p","a","b","a","s","e","-","u","r","l","=","h","t","t","p",
      ":","/","/","x">>

valuesBad ==
    <<"o","o","p","s">>

valuesBadKey ==
    <<"a",".","b","=","1">>

valuesHostIp ==
    <<"h","o","s","t","-","i","p","=","1",".","1",".","1",".","1">>

varsBad ==
    <<"E","X","T","R","A">>

tmplCtor ==
    <<"K","=","<","c","o","n","s","t","r","u","c","t","o","r",">">>

varsExtra ==
    <<"E","X","T","R","A","=","1">>

\* a non-loopback IPv4 address
sIp ==
    <<"1","0",".","0",".","0",".","5">>

\* built-in placeholder names and the status fields the README gives them
sSupabaseUrl ==
    <<"s","u","p","a","b","a","s","e","-","u","r","l">>

sSupabaseAnonKey ==
    <<"s","u","p","a","b","a","s","e","-","a","n","o","n","-","k","e","y">>

sSupabaseServiceRoleKey ==
    <<"s","u","p","a","b","a","s","e","-","s","e","r","v","i","c","e","-",
      "r","o","l","e","-","k","e","y">>

sSupabaseGraphqlUrl ==
    <<"s","u","p","a","b","a","s","e","-","g","r","a","p","h","q","l","-",
      "u","r","l">>

sSupabaseDbUrl ==
    <<"s","u","p","a","b","a","s","e","-","d","b","-","u","r","l">>

sApiUrl ==
    <<"A","P","I","_","U","R","L">>

sAnonKey ==
    <<"A","N","O","N","_","K","E","Y">>

sServiceRoleKey ==
    <<"S","E","R","V","I","C","E","_","R","O","L","E","_","K","E","Y">>

sGraphqlUrl ==
    <<"G","R","A","P","H","Q","L","_","U","R","L">>

sDbUrl ==
    <<"D","B","_","U","R","L">>

\* values of the status fields
vApi ==
    <<"h","t","t","p",":","/","/","a","p","i">>

vAnon ==
    <<"a","n","o","n">>

vRole ==
    <<"r","o","l","e">>

vGql ==
    <<"h","t","t","p",":","/","/","g","q","l">>

vDb ==
    <<"p","g",":","/","/","d","b">>

sUpperHostIp ==
    <<"H","O","S","T","-","I","P">>

vStatusIp ==
    <<"9",".","9",".","9",".","9">>

\* an entry of io: a call, the template it is about (0 when none), the
\* placeholder names a status call is made for, the table a resolution uses
Call(op, i) == [op |-> op, file |-> i, names |-> <<>>, table |-> EmptyMap]

Spawned(names) ==
    [op |-> "supabaseStatus", file |-> 0, names |-> names, table |-> EmptyMap]

Resolved(i, table) ==
    [op |-> "resolve", file |-> i, names |-> <<>>, table |-> table]

\* fetchFromSupabaseJSON runs the status command unless no name is missing
spawnedFor(placeholderNames) ==
    IF Len(placeholderNames) = 0 THEN <<>> ELSE <<Spawned(placeholderNames)>>

\* the content of a path of the file system
NoFile == [exists |-> FALSE]

File(content) == [exists |-> TRUE, content |-> content]

Templates == {tmplScenario, tmplPort, tmplBuiltins, tmplCtor}

Destinations == {NoFile, File(destPort), File(destMine)}

\* one template with its destination; before is the destination as the run
\* found it, fault the call on the files of this template that fails
FileState(t, d, f) == [template |-> t, dest |-> d, before |-> d, fault |-> f]

FileStates == {FileState(t, d, "none") : t \in Templates, d \in Destinations}

\* what `supabase status -o json` prints for a running project
SupabaseStatusJson ==
    <<<<sApiUrl, vApi>>, <<sAnonKey, vAnon>>, <<sServiceRoleKey, vRole>>,
      <<sGraphqlUrl, vGql>>, <<sDbUrl, vDb>>>>

\* a status object that names a field after a placeholder, upper-cased
UpperNameJson == <<<<sUpperHostIp, vStatusIp>>>>

StatusOutcomes ==
    {[kind |-> "error"], [kind |-> "nonzero"], [kind |-> "notjson"],
     [kind |-> "null"], [kind |-> "scalar"],
     [kind |-> "object", json |-> SupabaseStatusJson],
     [kind |-> "object", json |-> UpperNameJson]}

OptionSets ==
    [merge : BOOLEAN, override : BOOLEAN, dryRun : BOOLEAN,
     values : {<<>>, valuesUrl, valuesHostIp, valuesBad, valuesBadKey},
     vars : {<<>>, varsExtra, varsBad}]

\* the state in which a run starts, whatever its inputs are
RunStarts ==
    /\ called = "none"
    /\ args = NoArgs
    /\ ret = <<>>
    /\ pc = "options"
    /\ runNumber = 1
    /\ userPlaceholders = EmptyMap
    /\ extraVars = EmptyMap
    /\ fileLinesMap = <<>>
    /\ usedPlaceholders = <<>>
    /\ supabaseMap = EmptyMap
    /\ finalPlaceholders = EmptyMap
    /\ fileIndex = 0
    /\ exitCode = 0
    /\ io = <<>>

InitRun ==
    /\ RunStarts
    /\ options \in OptionSets
    /\ files \in SeqsUpTo(FileStates, MaxFiles)
    /\ localIp \in {Undefined, Some(sIp)}
    /\ status \in StatusOutcomes

\* steps 1 and 2: --values and --vars; an error thrown here is caught by
\* fillCommand, which exits with code 1
ParseOptions ==
    /\ pc = "options"
    /\ LET userValues == IF options.values # <<>>
                         THEN parseKeyValuePairs(options.values)
                         ELSE Returned(EmptyMap)
           validated  == IF userValues.thrown THEN Thrown
                         ELSE validateUserValues(userValues.value, EmptyMap)
           extra      == IF options.vars # <<>>
                         THEN parseKeyValuePairs(options.vars)
                         ELSE Returned(EmptyMap)
       IN  IF validated.thrown \/ extra.thrown
           THEN /\ pc' = "exited"
                /\ exitCode' = 1
                /\ UNCHANGED <<userPlaceholders, extraVars>>
           ELSE /\ pc' = "scan"
                /\ userPlaceholders' = validated.value
                /\ extraVars' = extra.value
                /\ UNCHANGED exitCode
    /\ UNCHANGED <<options, files, localIp, status, fileLinesMap,
                   usedPlaceholders, supabaseMap, finalPlaceholders, fileIndex,
                   io, runNumber, pureVars>>

\* step 4: the scan; the templates it finds are the elements of files
ScanDir ==
    /\ pc = "scan"
    /\ pc' = IF Len(files) = 0 THEN "done" ELSE "parse"
    /\ io' = Append(io, Call("readdir", 0))
    /\ UNCHANGED <<options, files, localIp, status, userPlaceholders,
                   extraVars, fileLinesMap, usedPlaceholders, supabaseMap,
                   finalPlaceholders, fileIndex, exitCode, runNumber, pureVars>>

RECURSIVE usedInFiles(_, _)
usedInFiles(linesOfFiles, used) ==
    IF Len(linesOfFiles) = 0 THEN used
    ELSE usedInFiles(Tail(linesOfFiles),
                     addUsedPlaceholders(Head(linesOfFiles), used))

\* step 5: every template is parsed and its placeholders gathered
\* a step 5 that goes on after a template that cannot be read, taking it
\* to have no line
ParseTemplates_SkipUnreadable ==
    /\ pc = "parse"
    /\ fileLinesMap' =
           [i \in 1..Len(files) |->
               IF files[i].fault = "readTemplate" THEN <<>>
               ELSE parseEnvFile(files[i].template)]
    /\ usedPlaceholders' = usedInFiles(fileLinesMap', <<>>)
    /\ io' = io \o [i \in 1..Len(files) |->
                       IF files[i].fault = "readTemplate"
                       THEN Call("readTemplateFailed", i)
                       ELSE Call("readTemplate", i)]
    /\ pc' = "hostip"
    /\ UNCHANGED <<options, files, localIp, status, userPlaceholders,
                   extraVars, supabaseMap, finalPlaceholders, fileIndex,
                   exitCode, runNumber, pureVars>>

\* a template that cannot be read makes readFileSync throw in parseEnvFile;
\* the error is caught by fillCommand
ParseTemplates ==
    /\ pc = "parse"
    /\ LET unreadable ==
               {i \in 1..Len(files) : files[i].fault = "readTemplate"}
       IN  IF unreadable = {}
           THEN /\ fileLinesMap' =
                      [i \in 1..Len(files) |-> parseEnvFile(files[i].template)]
                /\ usedPlaceholders' = usedInFiles(fileLinesMap', <<>>)
                /\ io' = io \o [i \in 1..Len(files) |->
                                   Call("readTemplate", i)]
                /\ pc' = "hostip"
                /\ UNCHANGED exitCode
           ELSE /\ io' = io \o [i \in 1..(SetMin(unreadable) - 1) |->
                                   Call("readTemplate", i)]
                            \o <<Call("readTemplateFailed",
                                      SetMin(unreadable))>>
                /\ pc' = "exited"
                /\ exitCode' = 1
                /\ UNCHANGED <<fileLinesMap, usedPlaceholders>>
    /\ UNCHANGED <<options, files, localIp, status, userPlaceholders,
                   extraVars, supabaseMap, finalPlaceholders, fileIndex,
                   runNumber, pureVars>>

\* a step 6 that looks the address up in every run and lets it replace a
\* value of the user
FillHostIp_Always ==
    /\ pc = "hostip"
    /\ io' = Append(io, Call("getLocalIp", 0))
    /\ userPlaceholders' =
           IF localIp.defined
           THEN ObjSet(userPlaceholders, sHostIp, localIp.value)
           ELSE userPlaceholders
    /\ pc' = "fetch"
    /\ UNCHANGED <<options, files, localIp, status, extraVars, fileLinesMap,
                   usedPlaceholders, supabaseMap, finalPlaceholders,
                   fileIndex, exitCode, runNumber, pureVars>>

\* step 6: <host-ip>
FillHostIp ==
    /\ pc = "hostip"
    /\ IF sHostIp \in Range(usedPlaceholders)
              /\ ~ObjIn(userPlaceholders, sHostIp)
       THEN /\ io' = Append(io, Call("getLocalIp", 0))
            /\ userPlaceholders' =
                   IF localIp.defined
                   THEN ObjSet(userPlaceholders, sHostIp, localIp.value)
                   ELSE userPlaceholders
       ELSE UNCHANGED <<io, userPlaceholders>>
    /\ pc' = "fetch"
    /\ UNCHANGED <<options, files, localIp, status, extraVars, fileLinesMap,
                   usedPlaceholders, supabaseMap, finalPlaceholders, fileIndex,
                   exitCode, runNumber, pureVars>>

\* step 7: the placeholders still missing are asked of the status command;
\* an error thrown by fetchFromSupabaseJSON is caught by fillCommand
FetchStatus ==
    /\ pc = "fetch"
    /\ LET missing == missingPlaceholders(usedPlaceholders, userPlaceholders)
           fetched == fetchFromSupabaseJSON(missing, status)
       IN  /\ io' = io \o spawnedFor(missing)
           /\ IF fetched.thrown
              THEN /\ pc' = "exited"
                   /\ exitCode' = 1
                   /\ UNCHANGED supabaseMap
              ELSE /\ pc' = "combine"
                   /\ supabaseMap' = fetched.value
                   /\ UNCHANGED exitCode
    /\ UNCHANGED <<options, files, localIp, status, userPlaceholders,
                   extraVars, fileLinesMap, usedPlaceholders,
                   finalPlaceholders, fileIndex, runNumber, pureVars>>

\* step 8
CombinePlaceholders ==
    /\ pc = "combine"
    /\ finalPlaceholders' = combinePlaceholders(supabaseMap, userPlaceholders)
    /\ fileIndex' = 1
    /\ pc' = "files"
    /\ UNCHANGED <<options, files, localIp, status, userPlaceholders,
                   extraVars, fileLinesMap, usedPlaceholders, supabaseMap,
                   exitCode, io, runNumber, pureVars>>

\* one pass of the per-file loop that writes whatever the dry-run option is
processFile_WriteOnDryRun(file, envExampleLines, placeholders, opts, extra) ==
    LET replaced == generateEnvLocalLines(envExampleLines, placeholders)
    IN  IF file.dest.exists /\ ~opts.merge THEN file.dest
        ELSE IF file.dest.exists
        THEN LET existing == parseEnvFile(file.dest.content)
                 merged   == mergeEnvLocal(existing, replaced,
                                           canOverride(opts))
             IN  File(writeEnvFile(merged, extra, canOverride(opts)))
        ELSE LET newFileMerged == mergeEnvLocal(<<>>, replaced, FALSE)
             IN  File(writeEnvFile(newFileMerged, extra, canOverride(opts)))

\* one pass of the per-file loop that merges into an existing destination
\* whatever the merge option is
processFile_NoSkip(file, envExampleLines, placeholders, opts, extra) ==
    LET replaced == generateEnvLocalLines(envExampleLines, placeholders)
    IN  IF file.dest.exists
        THEN LET existing == parseEnvFile(file.dest.content)
                 merged   == mergeEnvLocal(existing, replaced,
                                           canOverride(opts))
             IN  IF opts.dryRun THEN file.dest
                 ELSE File(writeEnvFile(merged, extra, canOverride(opts)))
        ELSE IF opts.dryRun THEN file.dest
             ELSE LET newFileMerged == mergeEnvLocal(<<>>, replaced, FALSE)
                  IN  File(writeEnvFile(newFileMerged, extra,
                                        canOverride(opts)))

\* the content of the destination after one pass of the per-file loop
processFile(file, envExampleLines, placeholders, opts, extra) ==
    LET replaced == generateEnvLocalLines(envExampleLines, placeholders)
    IN  IF file.dest.exists /\ ~opts.merge THEN file.dest
        ELSE IF file.dest.exists
        THEN LET existing == parseEnvFile(file.dest.content)
                 merged   == mergeEnvLocal(existing, replaced,
                                           canOverride(opts))
             IN  IF opts.dryRun THEN file.dest
                 ELSE File(writeEnvFile(merged, extra, canOverride(opts)))
        ELSE IF opts.dryRun THEN file.dest
             ELSE LET newFileMerged == mergeEnvLocal(<<>>, replaced, FALSE)
                  IN  File(writeEnvFile(newFileMerged, extra,
                                        canOverride(opts)))

\* a pass of the per-file loop reads the destination when it exists and
\* merging is enabled
readsDestination(file, opts) == file.dest.exists /\ opts.merge

\* a pass writes the destination unless it is skipped, the run is a dry run
\* or the read of the destination has failed
writesDestination(file, opts) ==
    /\ ~(file.dest.exists /\ ~opts.merge)
    /\ ~opts.dryRun
    /\ ~(readsDestination(file, opts) /\ file.fault = "readDestination")

\* a loop in which an error of a pass is swallowed
passFails_Swallowed(file, opts) == FALSE

\* a pass in which readFileSync or writeFileSync throws; the error is caught
\* by fillCommand
passFails(file, opts) ==
    \/ readsDestination(file, opts) /\ file.fault = "readDestination"
    \/ writesDestination(file, opts) /\ file.fault = "writeDestination"

\* the calls of a per-file loop that fetches the status table in each pass
callsOfProcessFile_StatusPerFile(i, file, placeholders, opts) ==
    <<Spawned(<<>>), Resolved(i, placeholders)>>
        \o (IF ~readsDestination(file, opts) THEN <<>>
            ELSE IF file.fault = "readDestination"
            THEN <<Call("readDestinationFailed", i)>>
            ELSE <<Call("readDestination", i)>>)
        \o (IF ~writesDestination(file, opts) THEN <<>>
            ELSE IF file.fault = "writeDestination"
            THEN <<Call("writeDestinationFailed", i)>>
            ELSE <<Call("writeDestination", i)>>)

\* the calls of one pass of the per-file loop: the template's lines are
\* resolved against the table, an existing destination is read when merging
\* is enabled, and the destination is written unless the pass is skipped or
\* the run is a dry run
callsOfProcessFile(i, file, placeholders, opts) ==
    <<Resolved(i, placeholders)>>
        \o (IF ~readsDestination(file, opts) THEN <<>>
            ELSE IF file.fault = "readDestination"
            THEN <<Call("readDestinationFailed", i)>>
            ELSE <<Call("readDestination", i)>>)
        \o (IF ~writesDestination(file, opts) THEN <<>>
            ELSE IF file.fault = "writeDestination"
            THEN <<Call("writeDestinationFailed", i)>>
            ELSE <<Call("writeDestination", i)>>)

\* step 10, one template
ProcessFile ==
    /\ pc = "files"
    /\ fileIndex <= Len(files)
    /\ io' = io \o callsOfProcessFile(fileIndex, files[fileIndex],
                                      finalPlaceholders, options)
    /\ IF passFails(files[fileIndex], options)
       THEN /\ pc' = "exited"
            /\ exitCode' = 1
            /\ UNCHANGED <<files, fileIndex>>
       ELSE /\ files' = [files EXCEPT ![fileIndex].dest =
                           processFile(files[fileIndex],
                                       fileLinesMap[fileIndex],
                                       finalPlaceholders, options, extraVars)]
            /\ fileIndex' = fileIndex + 1
            /\ UNCHANGED <<pc, exitCode>>
    /\ UNCHANGED <<options, localIp, status, userPlaceholders, extraVars,
                   fileLinesMap, usedPlaceholders, supabaseMap,
                   finalPlaceholders, runNumber, pureVars>>

\* the loop is over; generateEnvAction returns
Finish ==
    /\ pc = "files"
    /\ fileIndex > Len(files)
    /\ pc' = "done"
    /\ UNCHANGED <<options, files, localIp, status, userPlaceholders,
                   extraVars, fileLinesMap, usedPlaceholders, supabaseMap,
                   finalPlaceholders, fileIndex, exitCode, io, runNumber, pureVars>>

NextRun ==
    \/ ParseOptions
    \/ ScanDir
    \/ ParseTemplates
    \/ FillHostIp
    \/ FetchStatus
    \/ CombinePlaceholders
    \/ ProcessFile
    \/ Finish

SpecRun == InitRun /\ [][NextRun]_vars

RunDone == pc = "done"

----------------------------------------------------------------------------
(* Properties of a run *)

\* the lines a run generates for a template: its lines after resolution
GeneratedLines(i) == generateEnvLocalLines(fileLinesMap[i], finalPlaceholders)

\* C4: in a run with merging enabled over a destination that already exists,
\* a key present in both the destination and the generated lines is written
\* with the generated value when the override option is set and keeps the
\* destination's value when it is not.
C4_OverrideOptionDecidesSharedKeys ==
    (RunDone /\ options.merge /\ ~options.dryRun) =>
        \A i \in 1..Len(files) :
            files[i].before.exists =>
                LET existing == parseEnvFile(files[i].before.content)
                    written  == parseEnvFile(files[i].dest.content)
                IN  \A k \in KVKeys(existing) \cap KVKeys(GeneratedLines(i)) :
                        ValuesOf(written, k) =
                            IF options.override
                            THEN {LastValueOf(GeneratedLines(i), k)}
                            ELSE ValuesOf(existing, k)

\* the status field the documentation gives each built-in placeholder
BuiltinFields ==
    <<<<sSupabaseUrl, sApiUrl>>, <<sSupabaseAnonKey, sAnonKey>>,
      <<sSupabaseServiceRoleKey, sServiceRoleKey>>,
      <<sSupabaseGraphqlUrl, sGraphqlUrl>>, <<sSupabaseDbUrl, sDbUrl>>>>

\* C10: when the status command exits with 0 and prints an object with the
\* string fields API_URL, ANON_KEY, SERVICE_ROLE_KEY, GRAPHQL_URL and DB_URL
\* and the user supplies no value, every built-in placeholder a template uses
\* is written to a newly created destination as the matching field.
C10_StatusFieldsResolveBuiltins ==
    (/\ RunDone
     /\ status = [kind |-> "object", json |-> SupabaseStatusJson]
     /\ options.values = <<>>
     /\ ~options.dryRun) =>
        \A i \in 1..Len(files) :
            ~files[i].before.exists =>
                \A j \in KVAt(fileLinesMap[i]) :
                    LET ln    == fileLinesMap[i][j]
                        token == trim(ln.value)
                        name  == normalizePlaceholderName(tokenInterior(token))
                    IN  (isPlaceholderToken(token) /\ MapHas(BuiltinFields, name))
                            => ValuesOf(parseEnvFile(files[i].dest.content),
                                        ln.key)
                                 = {MapGet(SupabaseStatusJson,
                                           MapGet(BuiltinFields, name))}

\* the run got past the options, which are read before anything else is done
OptionsAccepted == io # <<>>

\* the templates the per-file loop has resolved so far
ResolvedFiles == {io[n].file : n \in {m \in 1..Len(io) : io[m].op = "resolve"}}

\* C11: whenever the status command fails to launch, exits non-zero, prints
\* text that is not JSON or prints JSON that is not an object, the run is not
\* aborted by it: the table fetched is empty and a finished run has resolved
\* every template.
C11_StatusFailureNeverFatal ==
    (status.kind # "object" /\ OptionsAccepted) =>
        /\ pc # "exited"
        /\ supabaseMap = EmptyMap
        /\ RunDone => ResolvedFiles = 1..Len(files)

\* the option lists of the model that hold a pair without '=' or a key that
\* is no placeholder name
MalformedOptions ==
    \/ options.values \in {valuesBad, valuesBadKey}
    \/ options.vars = varsBad

Unmodified == \A i \in 1..Len(files) : files[i].dest = files[i].before

\* C12: a run whose --values or --vars list holds a malformed pair, or whose
\* --values list holds an invalid placeholder name, does nothing but exit
\* with code 1: no directory scan, template read, status call or destination
\* write happens, and every destination is as it was.
C12_BadOptionsAbortBeforeIO ==
    MalformedOptions =>
        /\ pc \in {"options", "exited"}
        /\ pc = "exited" => exitCode = 1
        /\ io = <<>>
        /\ Unmodified

C12_Witness ==
    /\ pc = "exited"
    /\ exitCode = 1
    /\ options.values = valuesBadKey
    /\ options.vars = varsExtra
    /\ Len(files) > 0
    /\ ~options.dryRun

\* the templates whose destination the run has written so far
WrittenFiles ==
    {io[n].file : n \in {m \in 1..Len(io) : io[m].op = "writeDestination"}}

\* C13: in a run with the dry-run option no destination is written: every
\* destination, existing or not, is as it was before the run.
C13_DryRunWritesNothing ==
    options.dryRun => (Unmodified /\ WrittenFiles = {})

C13_Witness ==
    /\ RunDone
    /\ options.dryRun
    /\ options.merge
    /\ \E i \in 1..Len(files) :
          /\ files[i].before.exists
          /\ i \in ResolvedFiles
          /\ parseEnvFile(files[i].before.content)
                # mergeEnvLocal(parseEnvFile(files[i].before.content),
                                GeneratedLines(i), canOverride(options))

\* C14: in a run with merging disabled every destination that already exists
\* is left as it was, whatever the other options are, and only destinations
\* that do not exist are written.
C14_NoMergeSkipsExisting ==
    ~options.merge =>
        \A i \in 1..Len(files) :
            files[i].before.exists =>
                (files[i].dest = files[i].before /\ i \notin WrittenFiles)

C14_Witness ==
    /\ RunDone
    /\ ~options.merge
    /\ options.override
    /\ ~options.dryRun
    /\ options.vars = varsExtra
    /\ options.values = valuesUrl
    /\ \E i \in 1..Len(files) :
          /\ files[i].before.exists
          /\ i \in ResolvedFiles
          /\ files[i].template = tmplScenario

----------------------------------------------------------------------------
(* Specification of normalizePlaceholderName and validatePlaceholderKey as
   pure functions *)

sFOO_BAR == <<"F","O","O","_","B","A","R">>

sFooBar == <<"f","o","o","-","b","a","r">>

\* the characters of the raw names: letters of both cases, a digit, the
\* underscore, the dash, characters outside the pattern, and whitespace
RawKeyChars == {"a", "B", "1", "_", "-", ".", "/", " ", "\t"}

RawKeys == SeqsUpTo(RawKeyChars, MaxKey) \cup {sFOO_BAR}

InitKey ==
    /\ RunIdle
    /\ called = "none"
    /\ args \in [raw : RawKeys]
    /\ ret = <<>>

CallNormalizePlaceholderName ==
    /\ called = "none"
    /\ called' = "normalizePlaceholderName"
    /\ ret' = normalizePlaceholderName(args.raw)
    /\ UNCHANGED <<args, runVars>>

CallValidatePlaceholderKey ==
    /\ called = "none"
    /\ called' = "validatePlaceholderKey"
    /\ ret' = validatePlaceholderKey(args.raw)
    /\ UNCHANGED <<args, runVars>>

NextKey == CallNormalizePlaceholderName \/ CallValidatePlaceholderKey

SpecKey == InitKey /\ [][NextKey]_vars

\* one or more characters of [a-z0-9-]
IsLowerKebab(s) ==
    /\ Len(s) >= 1
    /\ \A i \in 1..Len(s) : s[i] \in Range(LowerSeq) \cup Digit \cup {"-"}

\* sub occurs in s
Contains(s, sub) ==
    \E i \in 0..(Len(s) - Len(sub)) : SubSeq(s, i + 1, i + Len(sub)) = sub

\* C15: validatePlaceholderKey(raw) returns the normalized name exactly when
\* that name is one or more characters of [a-z0-9-], and otherwise throws an
\* error whose message holds the raw string and the pattern.
C15_ValidateReturnsOrThrows ==
    called = "validatePlaceholderKey" =>
        IF IsLowerKebab(normalizePlaceholderName(args.raw))
        THEN ret = Returned(normalizePlaceholderName(args.raw))
        ELSE /\ ret.thrown
             /\ Contains(ret.message, args.raw)
             /\ Contains(ret.message, sPlaceholderRegexSource)

C15_Witness ==
    /\ called = "validatePlaceholderKey"
    /\ ret.thrown
    /\ "." \in Range(args.raw)
    /\ "B" \in Range(args.raw)

\* C17: normalizePlaceholderName gives a string that it maps to itself, with
\* no underscore, no upper-case letter and no whitespace at either end, and
\* it maps FOO_BAR to foo-bar.
C17_NormalizeIsStable ==
    called = "normalizePlaceholderName" =>
        /\ normalizePlaceholderName(ret) = ret
        /\ \A i \in 1..Len(ret) : ret[i] \notin Range(UpperSeq) \cup {"_"}
        /\ ret # <<>> => (ret[1] \notin WhiteSpace
                            /\ ret[Len(ret)] \notin WhiteSpace)
        /\ args.raw = sFOO_BAR => ret = sFooBar

C17_Witness ==
    /\ called = "normalizePlaceholderName"
    /\ args.raw = <<" ", "B", "_">>
    /\ ret = <<"b", "-">>

----------------------------------------------------------------------------
(* Properties of the order of a run's calls *)

\* the positions of io that hold a call of one of the given kinds
CallsOf(ops) == {n \in 1..Len(io) : io[n].op \in ops}

StatusCalls == CallsOf({"supabaseStatus"})

FetchDone ==
    \/ pc \in {"combine", "files", "done"}
    \/ pc = "exited" /\ OptionsAccepted

\* the names used in a template that the user table has no entry for
NamesToFetch ==
    {name \in Range(usedPlaceholders) : ~MapHas(userPlaceholders, name)}

\* C19: the status command is asked for exactly the names that some template
\* uses and the user table, after the host-ip step, has no entry for, and
\* it is not invoked when there is no such name.
C19_StatusAskedForMissingNames ==
    FetchDone =>
        IF NamesToFetch = {} THEN StatusCalls = {}
        ELSE /\ StatusCalls # {}
             /\ \A n \in StatusCalls : Range(io[n].names) = NamesToFetch

----------------------------------------------------------------------------
(* Properties of the host-ip step *)

sUserIp ==
    <<"1",".","1",".","1",".","1">>

\* the user gives a value for host-ip
UserHostIp == options.values = valuesHostIp

LookupCalls == CallsOf({"getLocalIp"})

HostIpStepDone ==
    \/ pc \in {"fetch", "combine", "files", "done"}
    \/ pc = "exited" /\ OptionsAccepted

\* the value a finished run is to write for <host-ip>
ExpectedHostIp(unresolved) ==
    IF UserHostIp THEN sUserIp
    ELSE IF localIp.defined THEN localIp.value
    ELSE IF status = [kind |-> "object", json |-> UpperNameJson]
    THEN vStatusIp
    ELSE unresolved

\* C20: the network lookup is made only when host-ip is used in a template
\* and the user gave no value for it; a value of the user is never replaced;
\* an address found is put in the user table; when none is found the run
\* goes on and writes <host-ip> as it stands unless the status command
\* supplies a value.
C20_HostIpLookup ==
    /\ LookupCalls # {} => (sHostIp \in Range(usedPlaceholders) /\ ~UserHostIp)
    /\ (UserHostIp /\ OptionsAccepted)
          => MapGet(userPlaceholders, sHostIp) = sUserIp
    /\ (HostIpStepDone /\ LookupCalls # {}) =>
          IF localIp.defined
          THEN /\ MapHas(userPlaceholders, sHostIp)
               /\ MapGet(userPlaceholders, sHostIp) = localIp.value
          ELSE ~MapHas(userPlaceholders, sHostIp)
    /\ RunDone =>
          \A i \in WrittenFiles :
              \A j \in KVAt(fileLinesMap[i]) :
                  LET ln    == fileLinesMap[i][j]
                      token == trim(ln.value)
                  IN  (/\ isPlaceholderToken(token)
                       /\ normalizePlaceholderName(tokenInterior(token))
                             = sHostIp)
                          => ValuesOf(parseEnvFile(files[i].dest.content),
                                      ln.key)
                               = {ExpectedHostIp(ln.value)}

\* a finished run in which the lookup was made and found no address
C20_Witness ==
    /\ RunDone
    /\ LookupCalls # {}
    /\ ~localIp.defined
    /\ status.kind = "error"
    /\ \E i \in WrittenFiles :
          /\ files[i].template = tmplBuiltins
          /\ sHostIp \notin MapKeys(finalPlaceholders)

----------------------------------------------------------------------------
(* Specification of writeEnvFile as a pure function *)

sA == <<"A">>

sC == <<"C">>

\* the extra-variable tables: A, a key the line texts carry, and C, a key
\* they lack, each absent or bound to a value, in both orders
ExtraTables ==
    TablesOver(<<sA, sC>>, {sV, sW}) \cup TablesOver(<<sC, sA>>, {sV, sW})

InitWrite ==
    /\ RunIdle
    /\ called = "none"
    /\ args \in [lines : LineSeqs, extra : ExtraTables, override : BOOLEAN]
    /\ ret = <<>>

CallWriteEnvFile ==
    /\ called = "none"
    /\ called' = "writeEnvFile"
    /\ ret' = writeEnvFile(args.lines, args.extra, args.override)
    /\ UNCHANGED <<args, runVars>>

NextWrite == CallWriteEnvFile

SpecWrite == InitWrite /\ [][NextWrite]_vars

WriteDone == called = "writeEnvFile"

\* the text a line is written as
TextOf(ln) ==
    IF ln.type = "keyvalue" THEN ln.key \o <<"=">> \o ln.value ELSE ln.text

\* the texts C23 describes: each line at its position, with the value of the
\* extra variable of its key when override is set, then one line for each
\* extra variable whose key the lines lack
TextsWithExtras(lines, extra, override) ==
    [i \in 1..Len(lines) |->
        IF /\ lines[i].type = "keyvalue"
           /\ MapHas(extra, lines[i].key)
           /\ override
        THEN lines[i].key \o <<"=">> \o MapGet(extra, lines[i].key)
        ELSE TextOf(lines[i])]
    \o [i \in 1..Len(SelectSeq(extra, LAMBDA e : e[1] \notin KVKeys(lines))) |->
           LET e == SelectSeq(extra, LAMBDA x : x[1] \notin KVKeys(lines))[i]
           IN  e[1] \o <<"=">> \o e[2]]

\* C23: writeEnvFile writes every line at its position, a line whose key is
\* an extra variable carrying the variable's value when override is set and
\* its own value otherwise, followed by one line key=value for each extra
\* variable whose key the lines lack, in the table's order.
C23_ExtraVarsPolicy ==
    WriteDone =>
        ret = join(TextsWithExtras(args.lines, args.extra, args.override),
                   <<"\n">>)

\* C26: writeEnvFile with an empty extra-variable table writes one output
\* line for each Line it is given, in the same order, two KeyValue lines of
\* the same key included.
C26_OneOutputLinePerLine ==
    (WriteDone /\ args.extra = EmptyMap) =>
        ret = join([i \in 1..Len(args.lines) |-> TextOf(args.lines[i])],
                   <<"\n">>)

----------------------------------------------------------------------------
(* Specification of parseEnvLine as a pure function *)

\* the characters of the texts: a word character, the dash, '=', '#', and
\* whitespace, two line terminators included
LineSigma == {"a", "-", "=", "#", " ", "\r", "\n"}

Texts == SeqsUpTo(LineSigma, MaxText)

InitLine ==
    /\ RunIdle
    /\ called = "none"
    /\ args \in [line : Texts]
    /\ ret = <<>>

CallParseEnvLine ==
    /\ called = "none"
    /\ called' = "parseEnvLine"
    /\ ret' = parseEnvLine(args.line)
    /\ UNCHANGED <<args, runVars>>

NextLine == CallParseEnvLine

SpecLine == InitLine /\ [][NextLine]_vars

LineDone == called = "parseEnvLine"

\* the characters of a text that are not whitespace
Inked(text) == {i \in 1..Len(text) : text[i] \notin WhiteSpace}

\* the length of the leading run of word, dot and dash characters
KeyRun(text) ==
    SetMax({n \in 0..Len(text) : \A i \in 1..n : text[i] \in KeyChar})

\* the position of the '=' that follows the key and optional whitespace, or 0
AssignAt(text) ==
    LET after == {i \in Inked(text) : i > KeyRun(text)}
    IN  IF KeyRun(text) >= 1 /\ after # {} /\ text[SetMin(after)] = "="
        THEN SetMin(after) ELSE 0

\* the text after the '=' of an assignment
Remainder(text) == SubSeq(text, AssignAt(text) + 1, Len(text))

\* C24: parseEnvLine gives Blank for an empty or whitespace-only text, Comment
\* with the text for a text whose first non-whitespace character is '#',
\* KeyValue for a text of a key, optional whitespace, '=' and a remainder, with
\* the key, the whole remainder after the first '=' as value and the text as
\* raw, and Comment with the text for every other text.
C24_ParseEnvLineClassifies ==
    LineDone =>
        LET text == args.line
        IN  ret = IF Inked(text) = {} THEN Blank
                  ELSE IF text[SetMin(Inked(text))] = "#" THEN Comment(text)
                  ELSE IF AssignAt(text) # 0
                  THEN KeyValue(SubSeq(text, 1, KeyRun(text)),
                                Remainder(text), text)
                  ELSE Comment(text)

\* C24, amended: as C24, but a text is an assignment only when its remainder
\* less the leading whitespace holds no line terminator, and the value is
\* the remainder less its leading whitespace.
C24_ParseEnvLineClassifiesTrimmed ==
    LineDone =>
        LET text  == args.line
            value == trimStart(Remainder(text))
        IN  ret = IF Inked(text) = {} THEN Blank
                  ELSE IF text[SetMin(Inked(text))] = "#" THEN Comment(text)
                  ELSE IF /\ AssignAt(text) # 0
                          /\ \A i \in 1..Len(value) :
                                 value[i] \notin LineTerminator
                  THEN KeyValue(SubSeq(text, 1, KeyRun(text)), value, text)
                  ELSE Comment(text)

\* C24 witness: an assignment with whitespace on both sides of '=' and a
\* second '=' in its value has been parsed
C24_Witness ==
    /\ LineDone
    /\ args.line = <<"a", " ", "=", " ", "=">>
    /\ ret = KeyValue(<<"a">>, <<"=">>, args.line)

----------------------------------------------------------------------------
(* Specification of parseKeyValuePairs as a pure function *)

sKAB == <<"k","=","a","=","b">>

sSpacedPair == <<" ","k"," ","="," ","a"," ">>

\* the pairs of the lists: texts without ',' of a key character, a value
\* character, '=' and the space, and two longer pairs
PairTexts == SeqsUpTo({"k", "a", "=", " "}, MaxPair) \cup {sKAB, sSpacedPair}

\* lists of no, one or two pairs
PairLists ==
    {<<>>} \cup PairTexts \cup {p \o <<",">> \o q : p, q \in PairTexts}

InitPairs ==
    /\ RunIdle
    /\ called = "none"
    /\ args \in [input : PairLists]
    /\ ret = <<>>

CallParseKeyValuePairs ==
    /\ called = "none"
    /\ called' = "parseKeyValuePairs"
    /\ ret' = parseKeyValuePairs(args.input)
    /\ UNCHANGED <<args, runVars>>

NextPairs == CallParseKeyValuePairs

SpecPairs == InitPairs /\ [][NextPairs]_vars

PairsDone == called = "parseKeyValuePairs"

\* the positions of a character in a text
PositionsOf(text, c) == {i \in 1..Len(text) : text[i] = c}

\* the pieces of a text between the occurrences of a character
PiecesOf(text, c) ==
    LET cuts == <<0>> \o SelectSeq([i \in 1..Len(text) |-> i],
                                   LAMBDA i : text[i] = c)
                     \o <<Len(text) + 1>>
    IN  [n \in 1..(Len(cuts) - 1) |->
            SubSeq(text, cuts[n] + 1, cuts[n + 1] - 1)]

\* the text of a pair before its first '='
BeforeEq(pair) == PiecesOf(pair, "=")[1]

\* the text of a pair between its first '=' and its second, or its end
AfterEq(pair) == PiecesOf(pair, "=")[2]

MalformedPair(pair) ==
    \/ PositionsOf(pair, "=") = {}
    \/ BeforeEq(pair) = <<>>
    \/ AfterEq(pair) = <<>>

----------------------------------------------------------------------------
(* Specification of the runs in which a call on a file fails *)

Faults == {"none", "readTemplate", "readDestination", "writeDestination"}

FaultFileStates ==
    {FileState(t, d, f) : t \in {tmplScenario, tmplPort},
                          d \in {NoFile, File(destPort)}, f \in Faults}

InitRunFaults ==
    /\ RunStarts
    /\ options \in [merge : BOOLEAN, override : BOOLEAN, dryRun : BOOLEAN,
                    values : {<<>>}, vars : {<<>>}]
    /\ files \in SeqsUpTo(FaultFileStates, MaxFaultFiles)
    /\ localIp = Undefined
    /\ status = [kind |-> "error"]

SpecRunFaults == InitRunFaults /\ [][NextRun]_vars

\* the calls on a destination that have failed
FailedPasses == CallsOf({"readDestinationFailed", "writeDestinationFailed"})

\* the destination a pass over a template leaves when no call fails
DestinationAfterPass(i) ==
    processFile([files[i] EXCEPT !.dest = files[i].before], fileLinesMap[i],
                finalPlaceholders, options, extraVars)

\* C27: when reading or writing the destination of the k-th template fails,
\* the run ends with exit code 1 at that call, no later template is
\* processed, and the destinations of the templates before the k-th are as
\* their passes left them.
C27_FailedPassEndsRun ==
    \A n \in FailedPasses :
        /\ pc = "exited"
        /\ exitCode = 1
        /\ n = Len(io)
        /\ ResolvedFiles = 1..io[n].file
        /\ \A i \in 1..(io[n].file - 1) :
               files[i].dest = DestinationAfterPass(i)
        /\ \A i \in io[n].file..Len(files) : files[i].dest = files[i].before

\* C27 witness: the write of the second destination has failed after the
\* first destination was created
C27_Witness ==
    /\ Len(files) = 2
    /\ FailedPasses # {}
    /\ io[Len(io)] = Call("writeDestinationFailed", 2)
    /\ 1 \in WrittenFiles
    /\ ~files[1].before.exists
    /\ files[1].dest.exists

\* the calls that write or try to write a destination
WriteCalls == CallsOf({"writeDestination", "writeDestinationFailed"})

\* C28: every template the scan finds is read and parsed before a destination
\* is written, so a template that cannot be read ends the run with exit code 1
\* and every destination as it was; a run whose scan finds no template ends
\* without a status call and without a write.
C28_TemplatesReadBeforeWrites ==
    /\ \A m \in WriteCalls :
          {io[n].file : n \in {k \in CallsOf({"readTemplate"}) : k < m}}
              = 1..Len(files)
    /\ CallsOf({"readTemplateFailed"}) # {} =>
          /\ pc = "exited"
          /\ exitCode = 1
          /\ WriteCalls = {}
          /\ Unmodified
    /\ Len(files) = 0 =>
          /\ pc \in {"options", "scan", "done"}
          /\ StatusCalls = {}
          /\ WriteCalls = {}

\* C28 witness: the second template could not be read in a run that would
\* have created the first destination
C28_Witness ==
    /\ Len(files) = 2
    /\ io # <<>>
    /\ io[Len(io)] = Call("readTemplateFailed", 2)
    /\ files[1].fault = "none"
    /\ ~files[1].dest.exists
    /\ ~options.dryRun
    /\ pc = "exited"

----------------------------------------------------------------------------
(* Specification of a run followed by a second run with the same inputs *)

varsSpaced ==
    <<"M","Y"," ","V","A","R","=","1">>


InitRerun ==
    /\ RunStarts
    /\ options \in [merge : BOOLEAN, override : BOOLEAN, dryRun : BOOLEAN,
                    values : {<<>>, valuesUrl},
                    vars : {<<>>, varsExtra, varsSpaced}]
    /\ files \in SeqsUpTo(FileStates, MaxFiles)
    /\ localIp = Undefined
    /\ status = [kind |-> "error"]

\* fillCommand is invoked again with the same directory and options: the
\* second run finds the destinations as the first run left them
StartSecondRun ==
    /\ pc = "done"
    /\ runNumber = 1
    /\ runNumber' = 2
    /\ pc' = "options"
    /\ files' = [i \in 1..Len(files) |->
                    [files[i] EXCEPT !.before = files[i].dest]]
    /\ userPlaceholders' = EmptyMap
    /\ extraVars' = EmptyMap
    /\ fileLinesMap' = <<>>
    /\ usedPlaceholders' = <<>>
    /\ supabaseMap' = EmptyMap
    /\ finalPlaceholders' = EmptyMap
    /\ fileIndex' = 0
    /\ io' = <<>>
    /\ UNCHANGED <<options, localIp, status, exitCode, pureVars>>

NextRerun == NextRun \/ StartSecondRun

SpecRerun == InitRerun /\ [][NextRerun]_vars

\* C29: a second run with the same templates, options, lookup result and
\* status result leaves every destination with the content the first run
\* left.
C29_SecondRunChangesNothing ==
    (runNumber = 2 /\ RunDone) =>
        \A i \in 1..Len(files) : files[i].dest = files[i].before

====
